---- MODULE Spec2Model ----
(***************************************************************************)
(* Model of src/data_pipeline/validate_raw_data.py: the raw-data           *)
(* validation run (main), its loader, the base, role and cross-table       *)
(* validators and the three-channel report.                                *)
(*                                                                         *)
(* A DataFrame is [columns, rows]: the ordered column labels and the rows, *)
(* each row a sequence of cells aligned with the columns.  A cell is null  *)
(* (NaN), a string or a number.  Numbers parse as timestamps and keep      *)
(* their order, strings of the model do not parse (pd.to_datetime with     *)
(* errors='coerce' turns them into NaT).  All parsed times are of one      *)
(* kind (timezone-naive), so two parsed columns always compare.  Column    *)
(* labels of a frame are distinct, as pd.read_csv and pd.concat make them. *)
(***************************************************************************)
EXTENDS Integers, Sequences, FiniteSets, TLC

VARIABLES
    PARTITIONS,   \* the configured partition list
    pc,           \* position of the run
    part,         \* index of the current partition in PARTITIONS
    ti,           \* index of the current table in TableNames
    df,           \* the frame in hand (main's df, or the argument of a call)
    tables,       \* main's table set of the current partition
    report,       \* the report: errors, warnings, info
    exit_status,  \* the process exit status, -1 while running
    fs,           \* the directory listings read so far: <<partition, table>> -> listing
    calls         \* history of the validator calls made by main

vars == <<PARTITIONS, pc, part, ti, df, tables, report, exit_status, fs, calls>>

----------------------------------------------------------------------------
(* Bounds *)

MaxRows == 2       \* rows of an input frame of the validator specifications
MaxDefects == 1    \* listings of one run that are not a single good file

----------------------------------------------------------------------------
(* Cells and frames *)

Null == [kind |-> "null", s |-> "", n |-> 0]
Str(x) == [kind |-> "str", s |-> x, n |-> 0]
Num(k) == [kind |-> "num", s |-> "", n |-> k]

isnull(c) == c.kind = "null"

Frame(cols, rs) == [columns |-> cols, rows |-> rs]

NoFrame == Frame(<<>>, <<>>)

Range(f) == {f[i] : i \in DOMAIN f}

HasCol(d, c) == \E i \in 1..Len(d.columns) : d.columns[i] = c

\* label-based column selection df[col]; the first column carrying the label
ColIndex(d, c) ==
    CHOOSE i \in 1..Len(d.columns) :
        d.columns[i] = c /\ \A j \in 1..(i - 1) : d.columns[j] # c

Cell(d, r, c) == d.rows[r][ColIndex(d, c)]

RowIdx(d) == 1..Len(d.rows)

\* len(df)
len(d) == Len(d.rows)

\* df.empty: some axis has length zero
empty(d) == Len(d.rows) = 0 \/ Len(d.columns) = 0

----------------------------------------------------------------------------
(* Configuration *)

RAW_DATA_BASE_PATH == "data/raw"

TableNames == <<"df_Orders", "df_OrderItems", "df_Customers", "df_payments", "df_products">>

TABLE_CONFIG ==
    [t \in Range(TableNames) |->
        CASE t = "df_Orders" -> [role |-> "event_fact", primary_key |-> <<"order_id">>]
          [] t = "df_OrderItems" -> [role |-> "transaction_detail", primary_key |-> <<"order_id">>]
          [] t = "df_Customers" -> [role |-> "entity_reference", primary_key |-> <<"customer_id">>]
          [] t = "df_payments" ->
                [role |-> "transaction_detail",
                 primary_key |-> <<"order_id", "payment_sequential">>]
          [] t = "df_products" -> [role |-> "entity_reference", primary_key |-> <<"product_id">>]]

----------------------------------------------------------------------------
(* Report *)

init_report == [errors |-> <<>>, warnings |-> <<>>, info |-> <<>>]

\* a message: what it reports, the table and path it names, its counts and labels
Msg(kind, table, n, m, names, path) ==
    [kind |-> kind, table |-> table, n |-> n, m |-> m, names |-> names, path |-> path]

log_info(message, rep) == [rep EXCEPT !.info = Append(@, message)]

log_warning(message, rep) == [rep EXCEPT !.warnings = Append(@, message)]

log_error(message, rep) == [rep EXCEPT !.errors = Append(@, message)]

----------------------------------------------------------------------------
(* Base validations *)

\* df.columns[df.columns.duplicated()]: the labels at positions that repeat an earlier one
duplicate_columns(d) ==
    LET dup(i) == \E j \in 1..(i - 1) : d.columns[j] = d.columns[i]
        idx[i \in 0..Len(d.columns)] ==
            IF i = 0 THEN <<>>
            ELSE IF dup(i) THEN Append(idx[i - 1], d.columns[i]) ELSE idx[i - 1]
    IN idx[Len(d.columns)]

missing_pk_columns(d, primary_key) ==
    LET absent(c) == ~HasCol(d, c) IN SelectSeq(primary_key, absent)

\* df[primary_key].isnull().any(axis=1).sum()
pk_null_count(d, primary_key) ==
    Cardinality({r \in RowIdx(d) :
        \E k \in 1..Len(primary_key) : isnull(Cell(d, r, primary_key[k]))})

\* the projection of row r onto the key columns
KeyOf(d, r, primary_key) == [k \in 1..Len(primary_key) |-> Cell(d, r, primary_key[k])]

\* df.duplicated(subset=primary_key).sum(): rows equal on the key to an earlier
\* row; pandas compares a missing value as equal to a missing value here
duplicate_pk_count(d, primary_key) ==
    Cardinality({r \in RowIdx(d) :
        \E q \in 1..(r - 1) : KeyOf(d, q, primary_key) = KeyOf(d, r, primary_key)})

run_base_validations(d, table_name, primary_key, rep) ==
    IF empty(d)
    THEN log_error(Msg("empty", table_name, 0, 0, <<>>, ""), rep)
    ELSE
      LET r1 == IF duplicate_columns(d) # <<>>
                THEN log_error(Msg("duplicate_columns", table_name, 0, 0,
                                   duplicate_columns(d), ""), rep)
                ELSE rep
      IN IF missing_pk_columns(d, primary_key) # <<>>
         THEN log_error(Msg("missing_pk", table_name, 0, 0,
                            missing_pk_columns(d, primary_key), ""), r1)
         ELSE
           LET r2 == IF pk_null_count(d, primary_key) > 0
                     THEN log_error(Msg("null_pk", table_name,
                                        pk_null_count(d, primary_key), 0, <<>>, ""), r1)
                     ELSE r1
           IN IF duplicate_pk_count(d, primary_key) > 0
              THEN log_error(Msg("duplicate_pk", table_name,
                                 duplicate_pk_count(d, primary_key), 0, <<>>, ""), r2)
              ELSE r2

----------------------------------------------------------------------------
(* Event fact validations *)

required_timestamps ==
    <<"order_purchase_timestamp", "order_approved_at",
      "order_delivered_timestamp", "order_estimated_delivery_date">>

missing_ts_columns(d) ==
    LET absent(c) == ~HasCol(d, c) IN SelectSeq(required_timestamps, absent)

\* pd.to_datetime(cell, errors='coerce'): a number is a time, anything else NaT
to_datetime(c) == IF c.kind = "num" THEN c ELSE Null

\* ts.isna().sum() of the parsed column
invalid_count(d, col) ==
    Cardinality({r \in RowIdx(d) : isnull(to_datetime(Cell(d, r, col)))})

\* (a_ts < b_ts).sum() on parsed columns; a comparison with NaT is False
precedes_count(d, a, b) ==
    Cardinality({r \in RowIdx(d) :
        LET x == to_datetime(Cell(d, r, a))
            y == to_datetime(Cell(d, r, b))
        IN ~isnull(x) /\ ~isnull(y) /\ x.n < y.n})

\* the parsing loop: one error per column with unparsable values, in column order
parse_errors(d, table_name, rep) ==
    LET acc[i \in 0..Len(required_timestamps)] ==
            IF i = 0 THEN rep
            ELSE IF invalid_count(d, required_timestamps[i]) > 0
                 THEN log_error(Msg("unparsable_ts", table_name,
                                    invalid_count(d, required_timestamps[i]), 0,
                                    <<required_timestamps[i]>>, ""), acc[i - 1])
                 ELSE acc[i - 1]
    IN acc[Len(required_timestamps)]

parsing_failed(d) ==
    \E i \in 1..Len(required_timestamps) : invalid_count(d, required_timestamps[i]) > 0

\* the two ordering checks that follow a clean parse
ordering_checks(d, table_name, rep) ==
    LET invalid_approval == precedes_count(d, "order_approved_at", "order_purchase_timestamp")
        invalid_delivery ==
            precedes_count(d, "order_delivered_timestamp", "order_purchase_timestamp")
    IN IF invalid_approval > 0
       THEN log_error(Msg("approval_precedes_purchase", table_name,
                          invalid_approval, 0, <<>>, ""), rep)
       ELSE IF invalid_delivery > 0
            THEN log_error(Msg("delivery_precedes_purchase", table_name,
                               invalid_delivery, 0, <<>>, ""), rep)
            ELSE rep

\* run_event_fact_validations without the return on parsing_failed
run_event_fact_validations_no_skip(d, table_name, rep) ==
    IF missing_ts_columns(d) # <<>>
    THEN log_error(Msg("missing_ts", table_name, 0, 0, missing_ts_columns(d), ""), rep)
    ELSE ordering_checks(d, table_name, parse_errors(d, table_name, rep))

run_event_fact_validations(d, table_name, rep) ==
    IF missing_ts_columns(d) # <<>>
    THEN log_error(Msg("missing_ts", table_name, 0, 0, missing_ts_columns(d), ""), rep)
    ELSE IF parsing_failed(d)
         THEN parse_errors(d, table_name, rep)
         ELSE ordering_checks(d, table_name, parse_errors(d, table_name, rep))

----------------------------------------------------------------------------
(* Transaction detail validations *)

\* the dtype pandas gives a column: numeric when every cell is a number or
\* missing and there is at least one row, object otherwise
is_numeric(d, i) ==
    /\ Len(d.rows) > 0
    /\ \A r \in RowIdx(d) : d.rows[r][i].kind \in {"num", "null"}

\* df.select_dtypes(include=['number']).columns.tolist(), as column positions
numeric_columns(d) ==
    LET acc[i \in 0..Len(d.columns)] ==
            IF i = 0 THEN <<>>
            ELSE IF is_numeric(d, i) THEN Append(acc[i - 1], i) ELSE acc[i - 1]
    IN acc[Len(d.columns)]

\* (df[col] < 0).sum() for the column at position i
negative_count(d, i) ==
    Cardinality({r \in RowIdx(d) : d.rows[r][i].kind = "num" /\ d.rows[r][i].n < 0})

run_transaction_detail_validations(d, table_name, rep) ==
    LET nc == numeric_columns(d)
        bad == {k \in 1..Len(nc) : negative_count(d, nc[k]) > 0}
    IN IF bad = {} THEN rep
       ELSE LET k == CHOOSE x \in bad : \A y \in bad : x <= y
            IN log_error(Msg("negative", table_name, negative_count(d, nc[k]), 0,
                             <<d.columns[nc[k]]>>, ""), rep)

----------------------------------------------------------------------------
(* Cross-table validations *)

required_tables == <<"df_Orders", "df_OrderItems", "df_payments">>

missing_tables(tbls) ==
    LET absent(t) == t \notin DOMAIN tbls IN SelectSeq(required_tables, absent)

\* set(orders_df['order_id'].dropna().unique())
order_id_set(orders_df) ==
    {Cell(orders_df, r, "order_id") : r \in RowIdx(orders_df)} \ {Null}

\* (~child_df['order_id'].isin(order_id_set)).sum()
orphan_count(child_df, ids) ==
    Cardinality({r \in RowIdx(child_df) : Cell(child_df, r, "order_id") \notin ids})

\* the call ends in an uncaught KeyError: a frame is indexed by 'order_id'
\* and has no such column
cross_table_raises(tbls) ==
    /\ missing_tables(tbls) = <<>>
    /\ \/ ~HasCol(tbls["df_Orders"], "order_id")
       \/ ~HasCol(tbls["df_OrderItems"], "order_id")
       \/ /\ HasCol(tbls["df_Orders"], "order_id")
          /\ HasCol(tbls["df_OrderItems"], "order_id")
          /\ orphan_count(tbls["df_OrderItems"], order_id_set(tbls["df_Orders"])) = 0
          /\ ~HasCol(tbls["df_payments"], "order_id")

\* the report of a call that returns
run_cross_table_validations(tbls, rep) ==
    IF missing_tables(tbls) # <<>>
    THEN log_error(Msg("cross_missing_tables", "", 0, 0, missing_tables(tbls), ""), rep)
    ELSE
      LET ids == order_id_set(tbls["df_Orders"])
          orphan_items == orphan_count(tbls["df_OrderItems"], ids)
          orphan_payments == orphan_count(tbls["df_payments"], ids)
      IN IF orphan_items > 0
         THEN log_error(Msg("orphan", "df_OrderItems", orphan_items, 0, <<>>, ""), rep)
         ELSE IF orphan_payments > 0
              THEN log_error(Msg("orphan", "df_payments", orphan_payments, 0, <<>>, ""), rep)
              ELSE rep

----------------------------------------------------------------------------
(* Input-output helpers *)

\* os.path.join
join(a, b) == a \o "/" \o b

\* A directory listing is the sequence, in glob's discovery order, of the
\* files of a partition directory that match <table_name>*.csv.  A file is
\* [name, readable, frame]: its basename, whether pd.read_csv succeeds on it,
\* and the frame read.

\* os.path.exists(<partition_path>/<table_name>.csv)
exists(listing, table_name) ==
    \E i \in 1..Len(listing) : listing[i].name = table_name \o ".csv"

\* the report after load_csv_file on one file
load_csv_file(file, partition_path, table_name, rep) ==
    IF file.readable
    THEN log_info(Msg("loaded", table_name, len(file.frame), 0, <<file.name>>, ""), rep)
    ELSE log_error(Msg("load_failed", table_name, 0, 0, <<>>,
                       join(partition_path, file.name)), rep)

\* the column labels of pd.concat(dfs): their union, in order of appearance
concat_columns(dfs) ==
    LET add(cols, d) ==
            LET new(c) == \A j \in 1..Len(cols) : cols[j] # c
            IN cols \o SelectSeq(d.columns, new)
        acc[i \in 0..Len(dfs)] == IF i = 0 THEN <<>> ELSE add(acc[i - 1], dfs[i])
    IN acc[Len(dfs)]

\* the rows of d laid out on the labels cols, missing cells NaN
reindex(d, cols) ==
    [r \in RowIdx(d) |->
        [i \in 1..Len(cols) |-> IF HasCol(d, cols[i]) THEN Cell(d, r, cols[i]) ELSE Null]]

\* pd.concat(dfs, ignore_index=True)
concat(dfs) ==
    LET cols == concat_columns(dfs)
        acc[i \in 0..Len(dfs)] ==
            IF i = 0 THEN <<>> ELSE acc[i - 1] \o reindex(dfs[i], cols)
    IN Frame(cols, acc[Len(dfs)])

\* load_logical_table: [ok, df, report]; ok is FALSE where the code returns None
load_logical_table(listing, partition_path, table_name, rep) ==
    IF listing = <<>>
    THEN [ok |-> FALSE, df |-> NoFrame,
          report |-> log_error(Msg("no_files", table_name, 0, 0, <<>>,
                                   join(partition_path, table_name \o "*.csv")), rep)]
    ELSE
      LET logged[i \in 0..Len(listing)] ==
              IF i = 0 THEN rep
              ELSE load_csv_file(listing[i], partition_path, table_name, logged[i - 1])
          isread(f) == f.readable
          read == SelectSeq(listing, isread)
          dfs == [i \in 1..Len(read) |-> read[i].frame]
      IN IF dfs = <<>>
         THEN [ok |-> FALSE, df |-> NoFrame,
               report |-> log_error(Msg("all_failed", table_name, 0, 0, <<>>, ""),
                                    logged[Len(listing)])]
         ELSE [ok |-> TRUE, df |-> concat(dfs),
               report |-> log_info(Msg("combined", table_name, len(concat(dfs)),
                                       Len(listing), <<>>, ""),
                                   logged[Len(listing)])]

----------------------------------------------------------------------------
(* The files a run may find *)

File(name, frame) == [name |-> name, readable |-> TRUE, frame |-> frame]

Unreadable(name) == [name |-> name, readable |-> FALSE, frame |-> NoFrame]

Columns(t) ==
    CASE t = "df_Orders" -> <<"order_id">> \o required_timestamps
      [] t = "df_OrderItems" -> <<"order_id", "price">>
      [] t = "df_Customers" -> <<"customer_id", "customer_city">>
      [] t = "df_payments" -> <<"order_id", "payment_sequential", "payment_value">>
      [] t = "df_products" -> <<"product_id", "product_weight_g">>

\* one sound row of table t with key id
Row(t, id) ==
    CASE t = "df_Orders" -> <<Str(id), Num(1), Num(2), Num(3), Num(4)>>
      [] t = "df_OrderItems" -> <<Str(id), Num(5)>>
      [] t = "df_Customers" -> <<Str(id), Str("x")>>
      [] t = "df_payments" -> <<Str(id), Num(1), Num(5)>>
      [] t = "df_products" -> <<Str(id), Num(1)>>

\* a row that breaks the rules of the table's role or its key
BadRow(t) ==
    CASE t = "df_Orders" -> <<Str("A"), Num(3), Num(2), Num(1), Num(4)>>
      [] t = "df_OrderItems" -> <<Str("A"), Num(0 - 5)>>
      [] t = "df_Customers" -> <<Null, Str("x")>>
      [] t = "df_payments" -> <<Str("Z"), Num(0 - 1), Num(0 - 5)>>
      [] t = "df_products" -> <<Null, Num(1)>>

Good(t) == Frame(Columns(t), <<Row(t, "A")>>)

Good2(t) == Frame(Columns(t), <<Row(t, "B")>>)

Bad(t) == Frame(Columns(t), <<BadRow(t), BadRow(t)>>)

HeaderOnly(t) == Frame(Columns(t), <<>>)

\* the table without its first column, the first key column
NoKey(t) == Frame(Tail(Columns(t)), <<Tail(Row(t, "A"))>>)

GoodListing(t) == <<File(t \o ".csv", Good(t))>>

Listings(t) ==
    LET exact == t \o ".csv"
        other == t \o "_2024.csv"
    IN { GoodListing(t),
         <<>>,
         <<File(other, Good(t))>>,
         <<File(exact, Good(t)), File(other, Good2(t))>>,
         <<File(other, Good2(t)), File(exact, Good(t))>>,
         <<Unreadable(exact)>>,
         <<Unreadable(exact), File(other, Good(t))>>,
         <<File(exact, HeaderOnly(t))>>,
         <<File(exact, NoKey(t))>>,
         <<File(exact, Bad(t))>> }

\* the listings read so far that are not the single good file
Defects(f) == Cardinality({k \in DOMAIN f : f[k] # GoodListing(TableNames[k[2]])})

----------------------------------------------------------------------------
(* The run: main() *)

EmptyTables == [t \in {} |-> NoFrame]

Call(fn, p, t, e, k, ts) ==
    [fn |-> fn, part |-> p, table |-> t, empty |-> e, nerr |-> k, tset |-> ts]

partition == PARTITIONS[part]

partition_path == join(RAW_DATA_BASE_PATH, partition)

table_name == TableNames[ti]

config == TABLE_CONFIG[table_name]

Init ==
    /\ PARTITIONS \in {<<"train">>, <<"train", "test">>}
    /\ pc = "partition"
    /\ part = 1
    /\ ti = 1
    /\ df = NoFrame
    /\ tables = EmptyTables
    /\ report = init_report
    /\ exit_status = 0 - 1
    /\ fs = [k \in {} |-> <<>>]
    /\ calls = <<>>

\* for partition in PARTITIONS: ... tables = {}
StartPartition ==
    /\ pc = "partition"
    /\ tables' = EmptyTables
    /\ ti' = 1
    /\ pc' = "table"
    /\ UNCHANGED <<PARTITIONS, part, df, report, exit_status, fs, calls>>

\* the position after the body of the table loop
AfterTable ==
    IF ti < Len(TableNames)
    THEN ti' = ti + 1 /\ pc' = "table"
    ELSE ti' = ti /\ pc' = "cross"

\* the listing found for the current table
Reads(listing) ==
    /\ listing \in Listings(table_name)
    /\ fs' = (<<part, ti>> :> listing) @@ fs
    /\ Defects(fs') <= MaxDefects

\* if not os.path.exists(csv_path): log_error; continue
MissingFile ==
    /\ pc = "table"
    /\ \E listing \in Listings(table_name) :
        /\ Reads(listing)
        /\ ~exists(listing, table_name)
        /\ report' = log_error(Msg("missing_file", table_name, 0, 0, <<>>,
                                   join(partition_path, table_name \o ".csv")), report)
    /\ calls' = Append(calls, Call("skip", part, table_name, FALSE, 0, {}))
    /\ AfterTable
    /\ UNCHANGED <<PARTITIONS, part, df, tables, exit_status>>

\* df = load_logical_table(...); if df is None: continue
LoadTable ==
    /\ pc = "table"
    /\ \E listing \in Listings(table_name) :
        /\ Reads(listing)
        /\ exists(listing, table_name)
        /\ LET got == load_logical_table(listing, partition_path, table_name, report)
           IN /\ report' = got.report
              /\ IF got.ok
                 THEN /\ df' = got.df
                      /\ pc' = "base"
                      /\ ti' = ti
                      /\ calls' = calls
                 ELSE /\ df' = df
                      /\ calls' = Append(calls, Call("skip", part, table_name, FALSE, 0, {}))
                      /\ AfterTable
    /\ UNCHANGED <<PARTITIONS, part, tables, exit_status>>

\* run_base_validations(df, table_name, config['primary_key'], report)
BaseValidate ==
    /\ pc = "base"
    /\ report' = run_base_validations(df, table_name, config.primary_key, report)
    /\ calls' = Append(calls, Call("base", part, table_name, empty(df),
                                   Len(report'.errors) - Len(report.errors), {}))
    /\ pc' = "role"
    /\ UNCHANGED <<PARTITIONS, part, ti, df, tables, exit_status, fs>>

\* the dispatch on config['role'], then tables[table_name] = df
RoleValidate ==
    /\ pc = "role"
    /\ CASE config.role = "event_fact" ->
              /\ report' = run_event_fact_validations(df, table_name, report)
              /\ calls' = Append(calls, Call("event_fact", part, table_name, empty(df),
                                             Len(report'.errors) - Len(report.errors), {}))
         [] config.role = "transaction_detail" ->
              /\ report' = run_transaction_detail_validations(df, table_name, report)
              /\ calls' = Append(calls, Call("transaction_detail", part, table_name,
                                             empty(df),
                                             Len(report'.errors) - Len(report.errors), {}))
         [] OTHER ->
              /\ report' = report
              /\ calls' = Append(calls, Call("stored", part, table_name, empty(df), 0, {}))
    /\ tables' = (table_name :> df) @@ tables
    /\ AfterTable
    /\ UNCHANGED <<PARTITIONS, part, df, exit_status, fs>>

\* the position after the body of the partition loop
AfterPartition ==
    IF part < Len(PARTITIONS)
    THEN part' = part + 1 /\ pc' = "partition"
    ELSE part' = part /\ pc' = "exit"

\* run_cross_table_validations(tables, report) returns
CrossValidate ==
    /\ pc = "cross"
    /\ ~cross_table_raises(tables)
    /\ report' = run_cross_table_validations(tables, report)
    /\ calls' = Append(calls, Call("cross", part, "", FALSE,
                                   Len(report'.errors) - Len(report.errors), DOMAIN tables))
    /\ AfterPartition
    /\ UNCHANGED <<PARTITIONS, ti, df, tables, exit_status, fs>>

\* run_cross_table_validations(tables, report) raises KeyError, which nothing
\* catches: the interpreter prints the traceback and exits with status 1
CrossRaise ==
    /\ pc = "cross"
    /\ cross_table_raises(tables)
    /\ calls' = Append(calls, Call("cross", part, "", FALSE, 0, DOMAIN tables))
    /\ pc' = "crashed"
    /\ exit_status' = 1
    /\ UNCHANGED <<PARTITIONS, part, ti, df, tables, report, fs>>

\* an exit status that fails on any message of the report but a warning
ExitStatus_any_message(rep) == IF rep.errors # <<>> \/ rep.info # <<>> THEN 1 ELSE 0

\* if report['errors']: sys.exit(1) ... sys.exit(0)
ExitStatus(rep) == IF rep.errors # <<>> THEN 1 ELSE 0

Exit ==
    /\ pc = "exit"
    /\ exit_status' = ExitStatus(report)
    /\ pc' = "done"
    /\ UNCHANGED <<PARTITIONS, part, ti, df, tables, report, fs, calls>>

Next ==
    \/ StartPartition
    \/ MissingFile
    \/ LoadTable
    \/ BaseValidate
    \/ RoleValidate
    \/ CrossValidate
    \/ CrossRaise
    \/ Exit

Spec == Init /\ [][Next]_vars

----------------------------------------------------------------------------
(* The validators on their own: each specification draws the arguments of  *)
(* one validator from a bounded set of frames and applies it once.         *)

\* the sequences over S of length at most n
SeqUpTo(S, n) == UNION {[1..k -> S] : k \in 0..n}

Idle(at) ==
    /\ PARTITIONS = <<"train">>
    /\ pc = at
    /\ part = 1
    /\ report = init_report
    /\ exit_status = 0 - 1
    /\ fs = [k \in {} |-> <<>>]
    /\ calls = <<>>

\* key cells of the frames given to run_base_validations
KeyRows(t) ==
    IF t = "df_payments"
    THEN {<<a, b, Num(5)>> : a \in {Null, Str("A")}, b \in {Null, Num(1), Num(2)}}
    ELSE {<<a, Num(5)>> : a \in {Null, Str("A"), Str("B")}}

BaseFrames(t) ==
    LET cols == TABLE_CONFIG[t].primary_key \o <<"value">>
    IN {Frame(cols, rs) : rs \in SeqUpTo(KeyRows(t), MaxRows)}
       \cup {Frame(Tail(cols), <<Tail(r)>>) : r \in KeyRows(t)}

InitBase ==
    /\ Idle("call_base")
    /\ ti \in 1..Len(TableNames)
    /\ df \in BaseFrames(TableNames[ti])
    /\ tables = EmptyTables

CallBase ==
    /\ pc = "call_base"
    /\ report' = run_base_validations(df, table_name, config.primary_key, report)
    /\ pc' = "ret_base"
    /\ UNCHANGED <<PARTITIONS, part, ti, df, tables, exit_status, fs, calls>>

NextBase == CallBase

SpecBase == InitBase /\ [][NextBase]_vars

\* rows of the frames given to run_event_fact_validations: purchase, approval,
\* delivery and estimated-delivery cells
EventRows ==
    {<<p, a, d, e>> : p \in {Str("x"), Num(2)}, a \in {Null, Num(1), Num(3)},
                      d \in {Str("x"), Num(1), Num(3)}, e \in {Null, Num(4)}}

EventFrames ==
    {Frame(required_timestamps, rs) : rs \in SeqUpTo(EventRows, MaxRows)}
    \cup {Frame(Tail(required_timestamps), <<Tail(r)>>) : r \in EventRows}

InitEventFact ==
    /\ Idle("call_event_fact")
    /\ ti = 1
    /\ df \in EventFrames
    /\ tables = EmptyTables

CallEventFact ==
    /\ pc = "call_event_fact"
    /\ report' = run_event_fact_validations(df, table_name, report)
    /\ pc' = "ret_event_fact"
    /\ UNCHANGED <<PARTITIONS, part, ti, df, tables, exit_status, fs, calls>>

NextEventFact == CallEventFact

SpecEventFact == InitEventFact /\ [][NextEventFact]_vars

\* rows of the frames given to run_transaction_detail_validations: an id and
\* two amounts
DetailRows ==
    {<<i, a, b>> : i \in {Str("A"), Num(0 - 7)},
                   a \in {Null, Str("x"), Num(0 - 5), Num(5)},
                   b \in {Num(0 - 1), Num(1)}}

DetailFrames ==
    {Frame(<<"order_id", "price", "shipping_charges">>, rs) :
        rs \in SeqUpTo(DetailRows, MaxRows)}

InitTransactionDetail ==
    /\ Idle("call_transaction_detail")
    /\ ti \in {2, 4}
    /\ df \in DetailFrames
    /\ tables = EmptyTables

CallTransactionDetail ==
    /\ pc = "call_transaction_detail"
    /\ report' = run_transaction_detail_validations(df, table_name, report)
    /\ pc' = "ret_transaction_detail"
    /\ UNCHANGED <<PARTITIONS, part, ti, df, tables, exit_status, fs, calls>>

NextTransactionDetail == CallTransactionDetail

SpecTransactionDetail == InitTransactionDetail /\ [][NextTransactionDetail]_vars

\* frames of the table sets given to run_cross_table_validations: order_id
\* cells drawn from ids, or no order_id column at all
IdFrames(ids) ==
    {Frame(<<"order_id", "value">>, rs) :
        rs \in SeqUpTo({<<i, Num(5)>> : i \in ids}, MaxRows)}
    \cup {Frame(<<"value">>, <<<<Num(5)>>>>)}

TableSets ==
    LET req == Range(required_tables)
    IN {[t \in S |-> Good(t)] : S \in (SUBSET req) \ {req}}
       \cup {[t \in req |->
                CASE t = "df_Orders" -> o [] t = "df_OrderItems" -> i [] OTHER -> p] :
             o \in IdFrames({Null, Str("A"), Str("B")}),
             i \in IdFrames({Null, Str("A"), Str("C")}),
             p \in IdFrames({Str("A"), Str("C")})}

InitCrossTable ==
    /\ Idle("call_cross_table")
    /\ ti = 1
    /\ df = NoFrame
    /\ tables \in TableSets

CallCrossTable ==
    /\ pc = "call_cross_table"
    /\ ~cross_table_raises(tables)
    /\ report' = run_cross_table_validations(tables, report)
    /\ pc' = "ret_cross_table"
    /\ UNCHANGED <<PARTITIONS, part, ti, df, tables, exit_status, fs, calls>>

RaiseCrossTable ==
    /\ pc = "call_cross_table"
    /\ cross_table_raises(tables)
    /\ pc' = "raised_cross_table"
    /\ UNCHANGED <<PARTITIONS, part, ti, df, tables, report, exit_status, fs, calls>>

NextCrossTable == CallCrossTable \/ RaiseCrossTable

SpecCrossTable == InitCrossTable /\ [][NextCrossTable]_vars

----------------------------------------------------------------------------
(* Properties *)

\* the errors of a report that are of the given kind and name the given table
ErrorsOf(rep, kind, table) ==
    {i \in 1..Len(rep.errors) : rep.errors[i].kind = kind /\ rep.errors[i].table = table}

\* exactly one such error is reported and it carries the count n when n > 0,
\* and none is reported when n = 0
ReportsCount(rep, kind, table, n) ==
    IF n > 0
    THEN /\ Cardinality(ErrorsOf(rep, kind, table)) = 1
         /\ \A i \in ErrorsOf(rep, kind, table) : rep.errors[i].n = n
    ELSE ErrorsOf(rep, kind, table) = {}

\* the run has ended: main() returned through sys.exit or died of an exception
Terminal == pc \in {"done", "crashed"}

\* C1: the run is never aborted by the data it validates: no combination of
\* loaded tables ends main() in an uncaught exception
C1_NeverAborted == pc # "crashed"

\* C2: base validation of a table with zero rows appends exactly one error
\* and no role validation is invoked for that table afterwards
C2_EmptyHaltsRoleChecks ==
    \A i \in 1..Len(calls) :
        (calls[i].fn = "base" /\ calls[i].empty) =>
            /\ calls[i].nerr = 1
            /\ \A j \in (i + 1)..Len(calls) :
                  ~(/\ calls[j].fn \in {"event_fact", "transaction_detail"}
                    /\ calls[j].part = calls[i].part
                    /\ calls[j].table = calls[i].table)

\* C3: when main() has made its final decision, the exit status is 0 if and
\* only if the error channel of the report is empty, whatever the warnings
\* and info channels hold
C3_ExitIffNoErrors == pc = "done" => (exit_status = 0 <=> report.errors = <<>>)

\* a run ended with status 0 although the info channel is not empty
C3_Witness == pc = "done" /\ exit_status = 0 /\ report.info # <<>>

\* C4: when all four timestamp columns parse, each ordering error is reported
\* with its own count whenever that count is positive, whatever the other
\* check finds
C4_OrderingChecksIndependent ==
    (pc = "ret_event_fact" /\ missing_ts_columns(df) = <<>> /\ ~parsing_failed(df)) =>
        /\ ReportsCount(report, "approval_precedes_purchase", table_name,
               Cardinality({r \in RowIdx(df) :
                   Cell(df, r, "order_approved_at").n
                       < Cell(df, r, "order_purchase_timestamp").n}))
        /\ ReportsCount(report, "delivery_precedes_purchase", table_name,
               Cardinality({r \in RowIdx(df) :
                   Cell(df, r, "order_delivered_timestamp").n
                       < Cell(df, r, "order_purchase_timestamp").n}))

\* the negative cells of the column at position i
Negatives(d, i) ==
    Cardinality({r \in RowIdx(d) : d.rows[r][i].kind = "num" /\ d.rows[r][i].n < 0})

\* C5: every numeric column with a negative value gets exactly one error that
\* carries its count of negative cells, and a numeric column without negative
\* values gets none
C5_ErrorPerNegativeColumn ==
    pc = "ret_transaction_detail" =>
        \A i \in 1..Len(df.columns) :
            is_numeric(df, i) =>
                LET mine == {k \in ErrorsOf(report, "negative", table_name) :
                                report.errors[k].names = <<df.columns[i]>>}
                IN IF Negatives(df, i) > 0
                   THEN /\ Cardinality(mine) = 1
                        /\ \A k \in mine : report.errors[k].n = Negatives(df, i)
                   ELSE mine = {}

\* the rows of a child frame whose order_id is not a key of the orders frame
Orphans(child, orders) ==
    Cardinality({r \in RowIdx(child) :
        \A q \in RowIdx(orders) :
            \/ isnull(Cell(orders, q, "order_id"))
            \/ Cell(orders, q, "order_id") # Cell(child, r, "order_id")})

\* C6: with orders, order items and payments present, the orphan order items
\* are reported iff there are any, and the orphan payments are reported iff
\* there are any, each with its count
C6_OrphanChecksIndependent ==
    (/\ pc = "ret_cross_table"
     /\ missing_tables(tables) = <<>>
     /\ \A t \in Range(required_tables) : HasCol(tables[t], "order_id")) =>
        /\ ReportsCount(report, "orphan", "df_OrderItems",
                        Orphans(tables["df_OrderItems"], tables["df_Orders"]))
        /\ ReportsCount(report, "orphan", "df_payments",
                        Orphans(tables["df_payments"], tables["df_Orders"]))

\* the rows whose key components are all present
KeyedRows(d, primary_key) ==
    {r \in RowIdx(d) : \A k \in 1..Len(primary_key) : ~isnull(Cell(d, r, primary_key[k]))}

\* C7: the duplicate-key count is taken over the rows without a null key
\* component only (the rows beyond the first occurrence of each key), and the
\* rows with a null component count in the null-key error only
C7_NullKeysNotCompared ==
    (pc = "ret_base" /\ ~empty(df) /\ missing_pk_columns(df, config.primary_key) = <<>>) =>
        LET pk == config.primary_key
            keyed == KeyedRows(df, pk)
        IN /\ ReportsCount(report, "duplicate_pk", table_name,
                  Cardinality({r \in keyed :
                      \E q \in keyed : q < r /\ KeyOf(df, q, pk) = KeyOf(df, r, pk)}))
           /\ ReportsCount(report, "null_pk", table_name,
                  Cardinality(RowIdx(df) \ keyed))

\* the sum of the row counts of the readable files of a listing
LoadedRows(listing) ==
    LET acc[i \in 0..Len(listing)] ==
            IF i = 0 THEN 0
            ELSE acc[i - 1] + (IF listing[i].readable THEN Len(listing[i].frame.rows) ELSE 0)
    IN acc[Len(listing)]

\* C8: once the tables of a partition are processed, every cataloged table
\* with a matching file that loads is in the table set, with as many rows as
\* the loaded files have together
C8_PrefixFilesFormTable ==
    pc = "cross" =>
        \A i \in 1..Len(TableNames) :
            (\E k \in 1..Len(fs[<<part, i>>]) : fs[<<part, i>>][k].readable) =>
                /\ TableNames[i] \in DOMAIN tables
                /\ Len(tables[TableNames[i]].rows) = LoadedRows(fs[<<part, i>>])

\* the calls of cross-table validation for partition p
CrossCalls(p) == {i \in 1..Len(calls) : calls[i].fn = "cross" /\ calls[i].part = p}

\* the position of table t in the catalog
TableIndex(t) == CHOOSE i \in 1..Len(TableNames) : TableNames[i] = t

\* C9: in every run, cross-table validation is invoked exactly once for each
\* partition, after the steps of every cataloged table of that partition
\* ended, on a table set that holds only tables loaded in that partition
C9_CrossOncePerPartition ==
    /\ \A i \in 1..Len(calls) :
          calls[i].fn = "cross" =>
              /\ \A t \in Range(TableNames) :
                    \E j \in 1..(i - 1) :
                        /\ calls[j].part = calls[i].part
                        /\ calls[j].table = t
                        /\ calls[j].fn \in {"skip", "event_fact", "transaction_detail", "stored"}
              /\ CrossCalls(calls[i].part) = {i}
    /\ pc = "cross" =>
          \A t \in DOMAIN tables :
              LET got == load_logical_table(fs[<<part, TableIndex(t)>>], partition_path,
                                            t, init_report)
              IN got.ok /\ tables[t] = got.df
    /\ Terminal => \A p \in 1..Len(PARTITIONS) : Cardinality(CrossCalls(p)) = 1

\* the cells of a column that are not a parsable time
Unparsable(d, col) == Cardinality({r \in RowIdx(d) : Cell(d, r, col).kind # "num"})

\* C10: with all four timestamp columns present and some cell unparsable,
\* the report holds exactly one error per column with unparsable cells,
\* carrying that column's count, and no temporal-ordering error
C10_ParseFailureSkipsOrdering ==
    (/\ pc = "ret_event_fact"
     /\ missing_ts_columns(df) = <<>>
     /\ \E c \in Range(required_timestamps) : Unparsable(df, c) > 0) =>
        /\ \A c \in Range(required_timestamps) :
              LET mine == {k \in ErrorsOf(report, "unparsable_ts", table_name) :
                              report.errors[k].names = <<c>>}
              IN IF Unparsable(df, c) > 0
                 THEN /\ Cardinality(mine) = 1
                      /\ \A k \in mine : report.errors[k].n = Unparsable(df, c)
                 ELSE mine = {}
        /\ \A k \in 1..Len(report.errors) : report.errors[k].kind = "unparsable_ts"

\* a frame with an unparsable cell in one row and, in a row that parses, an
\* approval and a delivery that precede the purchase
C10_Witness ==
    /\ pc = "ret_event_fact"
    /\ missing_ts_columns(df) = <<>>
    /\ \E c \in Range(required_timestamps) : Unparsable(df, c) > 0
    /\ precedes_count(df, "order_approved_at", "order_purchase_timestamp") > 0
    /\ precedes_count(df, "order_delivered_timestamp", "order_purchase_timestamp") > 0
    /\ Len(report.errors) > 0

====
